---- MODULE Spec2Model ----
(***************************************************************************)
(* Model of nemo/collections/avlm/data/webdataset/crude/dataset/           *)
(* media_text_dataset.py: the manifest collection (MediaDataset), its      *)
(* positional lookup, and the archive pipeline stages WdsFilter,           *)
(* WdsLoopOffsets and the index resolution of _build_sample.               *)
(*                                                                         *)
(* Conventions.  A Python Optional is a sequence of length 0 (None) or 1.  *)
(* A file name is a record [dir, parts]: parts are the dot-separated       *)
(* components of its basename ("a.b.wav" is <<"a","b","wav">>).  A file id *)
(* is a sequence of components too ("a.b" is <<"a","b">>).  Positions held *)
(* in the mapping are Python's 0-based positions; data[p + 1] is the       *)
(* entry at Python position p.  Durations are integers.                    *)
(***************************************************************************)
EXTENDS Integers, Sequences, FiniteSets, TLC

\* ------------------------------------------------------------------ bounds
MaxRows == 3            \* manifest rows read by one construction
MaxTarget == 8          \* largest max_num_samples tried
MaxUpstream == 3        \* archive records the upstream iterator can deliver
MaxItems == 3           \* manifest records the parser is given
MaxBuckets == 2         \* buckets in a path list of a configuration
MaxLines == 2           \* lines of a context file

\* ---------------------------------------------------------------- optionals
None == <<>>
Some(x) == <<x>>
IsNone(o) == o = <<>>
Val(o) == o[1]

\* every sequence over S of length at most n
RECURSIVE SeqsUpTo(_, _)
SeqsUpTo(S, n) ==
    IF n = 0 THEN {<<>>}
    ELSE LET shorter == SeqsUpTo(S, n - 1)
         IN shorter \cup {Append(s, x) : s \in shorter, x \in S}

\* ---------------------------------------------------------------- file names
File(d, p) == [dir |-> d, parts |-> p]

\* os.path.basename: the directory is dropped, the dotted name is kept
Basename(f) == f.parts

\* os.path.splitext(name)[0]: everything before the LAST dot
SplitextRoot(b) == IF Len(b) >= 2 THEN SubSeq(b, 1, Len(b) - 1) ELSE b

\* name.split('.', 1): one part if the name has no dot, else [head, rest]
SplitFirstDot(b) == IF Len(b) >= 2 THEN << <<b[1]>>, Tail(b) >> ELSE << b >>

\* ---------------------------------------------------------------- durations
\* a duration is None, a scalar (kind "scalar", one value) or a list
NoDuration == [kind |-> "none", v |-> <<>>]
Scalar(d) == [kind |-> "scalar", v |-> <<d>>]
DurList(s) == [kind |-> "list", v |-> s]

RECURSIVE SeqSum(_)
SeqSum(s) == IF s = <<>> THEN 0 ELSE Head(s) + SeqSum(Tail(s))
SeqMin(s) == CHOOSE x \in {s[k] : k \in 1..Len(s)} : \A k \in 1..Len(s) : x <= s[k]
SeqMax(s) == CHOOSE x \in {s[k] : k \in 1..Len(s)} : \A k \in 1..Len(s) : x >= s[k]

\* ------------------------------------------------------------ manifest rows
NoAnswer == "<None>"

Row(a, v, img, d, ans) ==
    [audio_file |-> a, video_file |-> v, image_files |-> img,
     duration |-> d, answer |-> ans, offset |-> None]

\* the same row with the optional offset column set
AtOffset(row, o) == [row EXCEPT !.offset = Some(o)]

\* the rows a manifest can hold
RowKinds ==
    { AtOffset(Row(Some(File("d", <<"a", "wav">>)), None, None, Scalar(1), "x"), 5),
      Row(Some(File("", <<"a">>)), None, None, Scalar(2), "x"),
      Row(Some(File("", <<"b", "c", "wav">>)), None, None, Scalar(4), "na"),
      Row(None, Some(File("", <<"v", "mp4">>)), None, DurList(<<2, 3>>), "x"),
      Row(None, None, Some(<<File("", <<"i", "1", "png">>), File("", <<"i", "2", "png">>)>>),
          NoDuration, "x"),
      Row(None, None, None, Scalar(2), NoAnswer),
      Row(None, None, None, NoDuration, NoAnswer),
      Row(None, None, None, NoDuration, "x") }

\* MediaDataEntity: the row's fields with its positional id
MediaDataEntity(sid, row) ==
    [id |-> sid, audio_file |-> row.audio_file, video_file |-> row.video_file,
     image_files |-> row.image_files, duration |-> row.duration,
     answer |-> row.answer, offset |-> row.offset]

VARIABLES
    \* constructor arguments of MediaDataset
    min_duration, max_duration, max_number, do_sort_by_duration,
    index_by_file_id, max_num_samples,
    \* the rows read so far (the zip of the parallel input lists)
    rows,
    \* locals and attributes of MediaDataset.__init__
    pc, err, data, mapping, duration_filtered, num_filtered, total_duration,
    curr_sum_dur,
    \* result of the last positional lookup
    got,
    \* the upstream iterator of the pipeline: records delivered so far, and
    \* whether it has raised StopIteration
    upstream, exhausted,
    \* WdsLoopOffsets attributes
    current_key, current_others, offset_id,
    \* what the stages have returned so far, and how the last pull ended
    filtered, emitted, resolved, last,
    \* the last call of _build_sample on its own and how it ended
    output,
    \* MediaDataCollection attributes the parser keeps, and the records parsed
    audio_extension, video_extension, image_extensions, parsed,
    \* MediaDataCollection.context_list, the pool read from context_file
    context_list,
    \* the last call of a dataset factory function and how it ended
    call

cfgVars == <<min_duration, max_duration, max_number, do_sort_by_duration,
             index_by_file_id, max_num_samples>>
buildVars == <<rows, pc, err, data, mapping, duration_filtered, num_filtered,
               total_duration, curr_sum_dur>>
\* what a lookup or a pull has no assignment to
readVars == <<rows, pc, err, mapping, duration_filtered, num_filtered,
              total_duration, curr_sum_dur>>
pipeVars == <<upstream, exhausted, current_key, current_others, offset_id,
              filtered, emitted, resolved, last>>
parseVars == <<audio_extension, video_extension, image_extensions, parsed,
               context_list>>
vars == <<cfgVars, buildVars, got, pipeVars, output, parseVars, call>>

\* ------------------------------------------------------ MediaDataset.__init__
\* file id under which a row is indexed (lines 155-161): [err, fid]
FileIdError(e) == [err |-> e, fid |-> <<>>]
FileIdOk(f) == [err |-> "none", fid |-> f]

IndexFileId(row) ==
    IF ~IsNone(row.audio_file)
    THEN FileIdOk(SplitextRoot(Basename(Val(row.audio_file))))
    ELSE IF ~IsNone(row.video_file)
    THEN FileIdOk(SplitextRoot(Basename(Val(row.video_file))))
    ELSE IF IsNone(row.image_files) THEN FileIdError("TypeError")
    ELSE IF Val(row.image_files) = <<>> THEN FileIdError("IndexError")
    ELSE FileIdOk(SplitFirstDot(Basename(Val(row.image_files)[1]))[1])

\* the guard of the index step (lines 150-154): `video_files` is the list
\* argument and `image_files is not []` compares identities, so the
\* parenthesised disjunction is always true
IndexGuard(row) ==
    index_by_file_id /\ (~IsNone(row.audio_file) \/ TRUE \/ TRUE)

\* mutant: the position is taken after the length has grown
NewPositionOffByOne(d) == Len(d)

\* position appended to mapping[file_id] (line 164)
NewPosition(d) == Len(d) - 1

\* mutant: the position is appended twice to the list of its file id
MappingAppendTwice(m, fid, p) ==
    IF fid \in DOMAIN m
    THEN [m EXCEPT ![fid] = Append(Append(@, p), p)]
    ELSE [k \in DOMAIN m \cup {fid} |-> IF k = fid THEN <<p, p>> ELSE m[k]]

\* mutant: a second segment of a file id replaces the first
MappingOverwrite(m, fid, p) ==
    [k \in DOMAIN m \cup {fid} |-> IF k = fid THEN <<p>> ELSE m[k]]

MappingAppend(m, fid, p) ==
    IF fid \in DOMAIN m
    THEN [m EXCEPT ![fid] = Append(@, p)]
    ELSE [k \in DOMAIN m \cup {fid} |-> IF k = fid THEN <<p>> ELSE m[k]]

EmptyMapping == [k \in {} |-> <<>>]

\* mutant: the upper bound is compared one too high
AboveMaxOffByOne(d) == ~IsNone(max_duration) /\ SeqMax(d.v) > Val(max_duration) + 1

\* duration filter of one row (lines 131, 136)
BelowMin(d) == ~IsNone(min_duration) /\ SeqMin(d.v) < Val(min_duration)
AboveMax(d) == ~IsNone(max_duration) /\ SeqMax(d.v) > Val(max_duration)

Raise(e) ==
    /\ pc' = "error"
    /\ err' = e

\* one iteration of the for loop (lines 123-168) on the next row
LoopBody(row) ==
    /\ pc = "loop"
    /\ Len(rows) < MaxRows
    /\ rows' = Append(rows, row)
    /\ LET hasDur == row.duration.kind # "none"
           sum == IF hasDur THEN Some(SeqSum(row.duration.v)) ELSE curr_sum_dur
           rejectDur == hasDur /\ (BelowMin(row.duration) \/ AboveMax(row.duration))
           entity == MediaDataEntity(Len(rows), row)
           newData == Append(data, entity)
           fid == IndexFileId(row)
       IN
       /\ curr_sum_dur' = sum
       /\ IF rejectDur
          THEN /\ duration_filtered' = duration_filtered + Val(sum)
               /\ num_filtered' = num_filtered + 1
               /\ UNCHANGED <<pc, err, data, mapping, total_duration>>
          ELSE IF row.answer = NoAnswer
          THEN /\ total_duration' =
                      IF hasDur THEN total_duration + Val(sum) ELSE total_duration
               /\ IF IsNone(sum)
                  THEN \* curr_sum_dur was never bound (line 143)
                       /\ Raise("UnboundLocalError")
                       /\ UNCHANGED <<duration_filtered, num_filtered>>
                  ELSE /\ duration_filtered' = duration_filtered + Val(sum)
                       /\ num_filtered' = num_filtered + 1
                       /\ UNCHANGED <<pc, err>>
               /\ UNCHANGED <<data, mapping>>
          ELSE /\ total_duration' =
                      IF hasDur THEN total_duration + Val(sum) ELSE total_duration
               /\ data' = newData
               /\ UNCHANGED <<duration_filtered, num_filtered>>
               /\ IF IndexGuard(row)
                  THEN IF fid.err # "none"
                       THEN /\ Raise(fid.err)
                            /\ UNCHANGED mapping
                       ELSE /\ mapping' = MappingAppend(mapping, fid.fid, NewPosition(newData))
                            /\ pc' = IF max_number = Some(Len(newData)) THEN "resize" ELSE "loop"
                            /\ UNCHANGED err
                  ELSE /\ pc' = IF max_number = Some(Len(newData)) THEN "resize" ELSE "loop"
                       /\ UNCHANGED <<err, mapping>>
    /\ UNCHANGED <<cfgVars, got, pipeVars, output, parseVars, call>>

\* the zip is exhausted: the loop ends
LoopEnd ==
    /\ pc = "loop"
    /\ pc' = "resize"
    /\ UNCHANGED <<cfgVars, rows, err, data, mapping, duration_filtered,
                   num_filtered, total_duration, curr_sum_dur, got, pipeVars,
                   output, parseVars, call>>

RECURSIVE Repeat(_, _)
Repeat(s, n) == IF n = 0 THEN <<>> ELSE s \o Repeat(s, n - 1)

\* np.random.choice(n, k, replace=False): k pairwise distinct positions of 0..n-1
Choices(n, k) ==
    { c \in [1..k -> 0..(n - 1)] : \A x, y \in 1..k : x # y => c[x] # c[y] }

\* mutant: the resize does not look at index_by_file_id
ResizeIgnoresIndex == ~IsNone(max_num_samples)

\* whether the resize branch is taken (line 170)
ResizeActive == ~IsNone(max_num_samples) /\ ~index_by_file_id

\* mutant: the residual sample is not appended
OversampledNoResidual(d, target, c) == Repeat(d, target \div Len(d))

\* lines 176-179: cyclic repetition, then the residual drawn by position from
\* the list as it is AFTER the repetition
Oversampled(d, target, c) ==
    LET rep == Repeat(d, target \div Len(d))
    IN rep \o [k \in 1..Len(c) |-> rep[c[k] + 1]]

ResidualCount(d, target) ==
    LET rep == Repeat(d, target \div Len(d)) IN target % Len(rep)

\* lines 170-181
Resize ==
    /\ pc = "resize"
    /\ IF ~ResizeActive
       THEN /\ pc' = "sort"
            /\ UNCHANGED <<err, data>>
       ELSE IF Val(max_num_samples) <= Len(data)
       THEN /\ data' = SubSeq(data, 1, Val(max_num_samples))
            /\ pc' = "sort"
            /\ UNCHANGED err
       ELSE IF Len(data) = 0
       THEN /\ Raise("ZeroDivisionError")
            /\ UNCHANGED data
       ELSE /\ \E c \in Choices(Len(Repeat(data, Val(max_num_samples) \div Len(data))),
                                ResidualCount(data, Val(max_num_samples))) :
                  data' = Oversampled(data, Val(max_num_samples), c)
            /\ pc' = "sort"
            /\ UNCHANGED err
    /\ UNCHANGED <<cfgVars, rows, mapping, duration_filtered, num_filtered,
                   total_duration, curr_sum_dur, got, pipeVars,
                   output, parseVars, call>>

\* key comparison of list.sort: a < b on two durations of the same kind
RECURSIVE LexLess(_, _)
LexLess(a, b) ==
    IF b = <<>> THEN FALSE
    ELSE IF a = <<>> THEN TRUE
    ELSE IF Head(a) # Head(b) THEN Head(a) < Head(b)
    ELSE LexLess(Tail(a), Tail(b))

\* `<` between the keys raises TypeError when a key is None or when a list
\* meets a number; every element of a list of two or more is compared
Comparable(d) ==
    \/ Len(d) < 2
    \/ /\ \A k \in 1..Len(d) : d[k].duration.kind # "none"
       /\ \A j, k \in 1..Len(d) : d[j].duration.kind = d[k].duration.kind

\* stable insertion: e goes after every element that is not greater
RECURSIVE InsertStable(_, _)
InsertStable(s, e) ==
    IF s = <<>> THEN <<e>>
    ELSE IF LexLess(e.duration.v, Head(s).duration.v) THEN <<e>> \o s
    ELSE <<Head(s)>> \o InsertStable(Tail(s), e)

RECURSIVE SortByDuration(_)
SortByDuration(d) ==
    IF d = <<>> THEN <<>>
    ELSE InsertStable(SortByDuration(SubSeq(d, 1, Len(d) - 1)), d[Len(d)])

\* whether the sort is performed (lines 183-187)
SortActive == do_sort_by_duration /\ ~index_by_file_id

\* lines 183-192: the optional sort, then self.data = data
SortAndStore ==
    /\ pc = "sort"
    /\ IF ~SortActive
       THEN /\ pc' = "done"
            /\ UNCHANGED <<err, data>>
       ELSE IF ~Comparable(data)
       THEN /\ Raise("TypeError")
            /\ UNCHANGED data
       ELSE /\ data' = SortByDuration(data)
            /\ pc' = "done"
            /\ UNCHANGED err
    /\ UNCHANGED <<cfgVars, rows, mapping, duration_filtered, num_filtered,
                   total_duration, curr_sum_dur, got, pipeVars,
                   output, parseVars, call>>

\* ---------------------------------------------------- MediaDataset.__getitem__
NoLookup == [idx |-> 0, kind |-> "none", entry |-> <<>>]

\* the bounds check of line 195
OutOfRange(idx, d) == idx < 0 \/ idx > Len(d)

\* lines 194-197: ValueError from the check, IndexError from the list itself
GetItemResult(idx, d) ==
    IF OutOfRange(idx, d) THEN [idx |-> idx, kind |-> "ValueError", entry |-> <<>>]
    ELSE IF idx + 1 \notin 1..Len(d) THEN [idx |-> idx, kind |-> "IndexError", entry |-> <<>>]
    ELSE [idx |-> idx, kind |-> "return", entry |-> <<d[idx + 1]>>]

\* mutant: the lookup takes the entry out of the list
DataAfterReadPop(d, idx) ==
    IF idx + 1 \in 1..Len(d)
    THEN SubSeq(d, 1, idx) \o SubSeq(d, idx + 2, Len(d))
    ELSE d

\* line 197: `return self.data[idx]` reads the list and leaves it as it is
DataAfterRead(d, idx) == d

GetItem(idx) ==
    /\ pc = "done"
    /\ got' = GetItemResult(idx, data)
    /\ data' = DataAfterRead(data, idx)
    /\ UNCHANGED <<cfgVars, readVars, pipeVars, output, parseVars, call>>

\* ------------------------------------------------------------ archive records
\* a record of wds.to_tuple: the payload fields, then the trailing key
Record(others, key) == [others |-> others, key |-> key]

\* the keys an archive can hold
KeyKinds ==
    { File("", <<"a", "wav">>), File("s", <<"b", "c", "wav">>),
      File("", <<"v", "mp4">>), File("", <<"a">>) }

\* the n-th record the upstream delivers: (audio bytes, video bytes, image)
UpstreamRecord(n, key) == Record(<<Some(n), None, None>>, key)

\* `file_id, _ = os.path.basename(key).split('.', 1)` (lines 416, 444, 701):
\* the unpacking needs exactly two parts
KeyFileId(key) ==
    LET parts == SplitFirstDot(Basename(key))
    IN IF Len(parts) # 2 THEN FileIdError("ValueError") ELSE FileIdOk(parts[1])

\* -------------------------------------------------------------- WdsFilter
\* mutant: the filter lets every record through
FilterKeepsAll(rec) == TRUE

\* line 417
FilterKeeps(rec) == KeyFileId(rec.key).fid \in DOMAIN mapping

\* how one call of WdsFilter.__next__ ends after reading the records `batch`
\* and, when none of them ended it, the upstream's StopIteration
FilterOutcome(batch) ==
    IF batch = <<>> THEN "StopIteration"
    ELSE LET r == batch[Len(batch)]
         IN IF KeyFileId(r.key).err # "none" THEN KeyFileId(r.key).err
            ELSE IF FilterKeeps(r) THEN "return"
            ELSE "StopIteration"

\* the records the while loop passes over before the one that ends the call
FilterSkips(batch) ==
    \A k \in 1..(Len(batch) - 1) :
        KeyFileId(batch[k].key).err = "none" /\ ~FilterKeeps(batch[k])

\* ---------------------------------------------------------- WdsLoopOffsets
\* mutant: the replicator advances one segment too late
SegmentsDoneLate(offset_list) == Len(offset_list) = offset_id

\* line 446: all segments of the held record are emitted
SegmentsDone(offset_list) == Len(offset_list) = offset_id + 1

\* what __next__ does first (lines 439-451)
LoopStep ==
    IF IsNone(current_key) THEN "pull"
    ELSE LET f == KeyFileId(Val(current_key))
         IN IF f.err # "none" THEN f.err
            ELSE IF f.fid \notin DOMAIN mapping THEN "KeyError"
            ELSE IF SegmentsDone(mapping[f.fid]) THEN "pull"
            ELSE "advance"

\* mutant: the offset index is reset although no record was received
HeldAfterStopReset(key, others, off) == [key |-> key, others |-> others, offset_id |-> 0]

\* lines 440 and 447: next(self.iterator) raises StopIteration before the
\* assignments of lines 441-442 and 448-449, so what is held stays
HeldAfterStop(key, others, off) == [key |-> key, others |-> others, offset_id |-> off]

\* line 453
LoopTuple(others, key, off) == [others |-> others, key |-> key, offset_id |-> off]

\* ----------------------------------------------- MediaCrudeWebDataset._build_sample
\* lines 699-703: the manifest entry of a tuple, [err, idx, entry]
BuildSample(tup) ==
    LET f == KeyFileId(tup.key)
    IN IF f.err # "none" THEN [err |-> f.err, idx |-> -1, entry |-> <<>>]
       ELSE IF f.fid \notin DOMAIN mapping THEN [err |-> "KeyError", idx |-> -1, entry |-> <<>>]
       ELSE IF tup.offset_id + 1 \notin 1..Len(mapping[f.fid])
       THEN [err |-> "IndexError", idx |-> -1, entry |-> <<>>]
       ELSE LET idx == mapping[f.fid][tup.offset_id + 1]
                g == GetItemResult(idx, data)
            IN IF g.kind # "return" THEN [err |-> g.kind, idx |-> idx, entry |-> <<>>]
               ELSE [err |-> "none", idx |-> idx, entry |-> g.entry]

Ended(kind, stage) == [kind |-> kind, stage |-> stage]
PipeErrors == {"ValueError", "KeyError", "IndexError"}

\* the tuple leaves WdsLoopOffsets and wds.map hands it to _build_sample,
\* whose entry lookup (lines 699-703) is recorded here; what the function does
\* after the lookup is BuildOutput below
Emit(tup) ==
    /\ emitted' = Append(emitted, tup)
    /\ LET b == BuildSample(tup)
       IN IF b.err # "none"
          THEN /\ last' = Ended(b.err, "build")
               /\ UNCHANGED <<resolved, data>>
          ELSE /\ last' = Ended("sample", "build")
               /\ data' = DataAfterRead(data, b.idx)
               /\ resolved' = Append(resolved, [idx |-> b.idx, entry |-> Val(b.entry)])

\* one pull on the pipeline of lines 656-666: WdsLoopOffsets.__next__, which
\* calls WdsFilter.__next__ when it needs a record, then _build_sample.
\* keys: the keys of the records the filter reads from upstream in this pull.
\* An exception leaves through wds.map and ends the pipeline, so nothing is
\* pulled after one; after StopIteration the stage objects can be asked again.
Pull(keys) ==
    /\ pc = "done"
    /\ index_by_file_id
    /\ last.kind \notin PipeErrors
    /\ LET batch == [k \in 1..Len(keys) |-> UpstreamRecord(Len(upstream) + k, keys[k])]
           step == LoopStep
       IN
       IF step = "advance"
       THEN /\ keys = <<>>
            /\ offset_id' = offset_id + 1
            /\ Emit(LoopTuple(Val(current_others), Val(current_key), offset_id + 1))
            /\ UNCHANGED <<upstream, exhausted, current_key, current_others, filtered>>
       ELSE IF step # "pull"
       THEN /\ keys = <<>>
            /\ last' = Ended(step, "loop")
            /\ UNCHANGED <<upstream, exhausted, current_key, current_others,
                           offset_id, filtered, emitted, resolved, data>>
       ELSE /\ exhausted => keys = <<>>
            /\ FilterSkips(batch)
            /\ upstream' = upstream \o batch
            /\ IF FilterOutcome(batch) = "StopIteration"
               THEN /\ exhausted' = TRUE
                    /\ last' = Ended("StopIteration", "filter")
                    /\ LET held == HeldAfterStop(current_key, current_others, offset_id)
                       IN /\ current_key' = held.key
                          /\ current_others' = held.others
                          /\ offset_id' = held.offset_id
                    /\ UNCHANGED <<filtered, emitted, resolved, data>>
               ELSE IF FilterOutcome(batch) # "return"
               THEN /\ last' = Ended(FilterOutcome(batch), "filter")
                    /\ UNCHANGED <<exhausted, current_key, current_others,
                                   offset_id, filtered, emitted, resolved, data>>
               ELSE LET sample == batch[Len(batch)]
                    IN /\ filtered' = Append(filtered, sample)
                       /\ current_others' = Some(sample.others)
                       /\ current_key' = Some(sample.key)
                       /\ offset_id' = 0
                       /\ Emit(LoopTuple(sample.others, sample.key, 0))
                       /\ UNCHANGED exhausted
    /\ UNCHANGED <<cfgVars, readVars, got, output, parseVars, call>>

\* ------------------------------------- _build_sample after the entry lookup
\* `x is not []`: the literal is a new list, so the identity test is true
\* for every x
IsNotNewList(x) == TRUE

\* the payloads a tuple can carry: (audio bytes, video bytes, image pixels...)
Payloads ==
    { <<Some(1), None, None>>, <<Some(1), None>>, <<None, Some(1), None>>,
      <<None, None, Some(1)>> }

\* tup[2:-2]
ImagePixels(tup) == SubSeq(tup.others, 3, Len(tup.others))

Failed(e) == [err |-> e, attention_mask |-> FALSE, metadata |-> None]

\* lines 736-754: output["image_sizes"] is None when the first image that is
\* not None arrives, and line 743 calls append on it
ImageLoop(pixels) ==
    IF \E k \in 1..Len(pixels) : ~IsNone(pixels[k])
    THEN [err |-> "AttributeError", processed_images |-> <<>>]
    ELSE [err |-> "none", processed_images |-> <<>>]

\* torch.cat raises on an empty list of tensors
TorchCat(tensors) == IF tensors = <<>> THEN "RuntimeError" ELSE "none"

\* lines 708-710
MetadataOffset(entry) == IF IsNone(entry.offset) THEN Some(0) ELSE entry.offset

\* lines 705-779, for the manifest entry the lookup found
BuildOutput(tup, entry) ==
    LET loop == ImageLoop(ImagePixels(tup))
    IN IF loop.err # "none" THEN Failed(loop.err)
       ELSE IF IsNotNewList(loop.processed_images)
               /\ TorchCat(loop.processed_images) # "none"
       THEN Failed(TorchCat(loop.processed_images))
       ELSE IF "visual_files" \notin DOMAIN entry THEN Failed("AttributeError")
       ELSE [err |-> "none",
             attention_mask |-> IsNotNewList(loop.processed_images)
                                   \/ ~IsNone(tup.others[2]),
             metadata |-> Some([offset |-> Val(MetadataOffset(entry)),
                                duration |-> entry.duration])]

NoSample == None

\* _build_sample called on one tuple of a built collection: the lookup, then
\* the output

Assemble(tup) ==
    /\ pc = "done"
    /\ index_by_file_id
    /\ output = NoSample
    /\ LET b == BuildSample(tup)
       IN output' = Some([tup |-> tup,
                          entry |-> b.entry,
                          out |-> IF b.err # "none" THEN Failed(b.err)
                                  ELSE BuildOutput(tup, Val(b.entry))])
    /\ UNCHANGED <<cfgVars, buildVars, got, pipeVars, parseVars, call>>

\* ------------------------------------------- MediaDataCollection.__parse_item
\* a key of a manifest record is absent or present; a present key holds
\* null (None) or a value (Some)
Absent == <<>>
Present(v) == <<v>>
Has(k) == k # <<>>

\* a comma separated string of image names: its names in order, each with
\* the dot separated parts of the name and whether a space precedes it
Name(pad, p) == [pad |-> pad, parts |-> p]

NoKeys ==
    [audio_filename |-> Absent, audio_filepath |-> Absent, audio_file |-> Absent,
     video_filename |-> Absent, video_filepath |-> Absent, video_file |-> Absent,
     video_files |-> Absent,
     image_filename |-> Absent, image_filenames |-> Absent,
     image_filepath |-> Absent, image_sample |-> Absent,
     answer |-> Absent, text |-> Absent, text_filepath |-> Absent,
     context |-> Absent, context_filepath |-> Absent, question |-> Absent]

\* the records a manifest line can decode to
RawKinds ==
    { NoKeys,
      [NoKeys EXCEPT !.audio_filepath = Present(Some(File("d", <<"a", "wav">>)))],
      [NoKeys EXCEPT !.audio_filename = Present(Some(File("", <<"b", "flac">>))),
                     !.audio_filepath = Present(Some(File("", <<"c", "wav">>)))],
      [NoKeys EXCEPT !.audio_file = Present(Some(File("s", <<"b", "c", "wav">>))),
                     !.video_filepath = Present(Some(File("", <<"y", "avi">>)))],
      [NoKeys EXCEPT !.audio_file = Present(None),
                     !.video_filename = Present(Some(File("", <<"w", "mp4">>))),
                     !.video_file = Present(Some(File("", <<"x", "avi">>)))],
      [NoKeys EXCEPT !.video_file = Present(Some(File("", <<"v", "mp4">>)))],
      [NoKeys EXCEPT !.video_files = Present(None),
                     !.video_file = Present(Some(File("", <<"z", "mp4">>)))],
      [NoKeys EXCEPT !.image_filename =
                         Present(Some(<<Name(FALSE, <<"i", "1", "png">>),
                                        Name(TRUE, <<"i", "2", "png">>)>>))],
      [NoKeys EXCEPT !.image_filepath =
                         Present(Some(<<Name(FALSE, <<"j", "2", "png">>),
                                        Name(FALSE, <<"j", "1", "png">>)>>))],
      [NoKeys EXCEPT !.image_sample = Present(Some(<<Name(FALSE, <<"k", "jpg">>)>>)),
                     !.audio_filepath = Present(Some(File("", <<"e", "flac">>)))],
      [NoKeys EXCEPT !.answer = Present(Some("x")), !.text = Present(Some("t")),
                     !.text_filepath = Present(Some("t.txt")),
                     !.context = Present(Some("c")),
                     !.context_filepath = Present(Some("c.txt")),
                     !.question = Present(Some("q"))],
      [NoKeys EXCEPT !.text = Present(Some("t")),
                     !.text_filepath = Present(Some("t.txt")),
                     !.context_filepath = Present(Some("c.txt")),
                     !.question = Present(Some("q"))],
      [NoKeys EXCEPT !.text_filepath = Present(Some("t.txt")),
                     !.question = Present(Some("q"))],
      [NoKeys EXCEPT !.answer = Present(None), !.text = Present(Some("t"))] }

\* os.path.splitext(name)[1][1:]: the text after the last dot, '' without one
Extension(f) == IF Len(f.parts) >= 2 THEN f.parts[Len(f.parts)] ELSE ""

\* lines 294-299
AudioFile(raw) ==
    IF Has(raw.audio_filename) THEN Val(raw.audio_filename)
    ELSE IF Has(raw.audio_filepath) THEN Val(raw.audio_filepath)
    ELSE IF ~Has(raw.audio_file) THEN None
    ELSE Val(raw.audio_file)

\* lines 310-315, and the read of item['video_file'] on line 317
VideoFile(raw) ==
    IF Has(raw.video_filename) THEN [err |-> "none", file |-> Val(raw.video_filename)]
    ELSE IF Has(raw.video_filepath) THEN [err |-> "none", file |-> Val(raw.video_filepath)]
    ELSE IF ~Has(raw.video_files) THEN [err |-> "none", file |-> None]
    ELSE IF ~Has(raw.video_file) THEN [err |-> "KeyError", file |-> None]
    ELSE [err |-> "none", file |-> Val(raw.video_file)]

\* mutant: the expected extension follows the latest record
ExtensionGuardLatest(expected, file) ==
    IF IsNone(file) THEN [expected |-> expected, file |-> file]
    ELSE [expected |-> Some(Extension(Val(file))), file |-> file]

\* lines 301-307 and 317-323: the first extension seen becomes the expected
\* one, a file with another extension is replaced by None
ExtensionGuard(expected, file) ==
    IF IsNone(file) THEN [expected |-> expected, file |-> file]
    ELSE IF IsNone(expected)
    THEN [expected |-> Some(Extension(Val(file))), file |-> file]
    ELSE IF Extension(Val(file)) # Val(expected)
    THEN [expected |-> expected, file |-> None]
    ELSE [expected |-> expected, file |-> file]

\* lines 330-337: the first `if` stands alone, the chain starts at the second
ImageSample(raw) ==
    LET first == IF Has(raw.image_filename) THEN raw.image_filename
                 ELSE raw.image_sample
    IN IF Has(raw.image_filenames) THEN Val(raw.image_filenames)
       ELSE IF Has(raw.image_filepath) THEN Val(raw.image_filepath)
       ELSE IF ~Has(first) THEN None
       ELSE Val(first)

\* line 341: .replace(" ", "").split(',')
SplitImages(str) == [k \in 1..Len(str) |-> str[k].parts]

\* line 342: the text after the first dot of each name, '' without a dot
ImgExts(images) ==
    { IF Len(images[k]) >= 2 THEN Tail(images[k]) ELSE <<>> : k \in 1..Len(images) }

\* line 236: the attribute starts as an empty dict
EmptyDict == [kind |-> "dict", v |-> {}]

\* `x is {}`: the literal is a new dict, so the identity test is false for
\* every x
IsNewDict(x) == FALSE

\* line 345: a set equals only a set with the same members
SetDiffers(exts, x) == x.kind # "set" \/ x.v # exts

\* lines 340-346
ImageGuard(expected, sample) ==
    IF IsNone(sample) THEN [expected |-> expected, sample |-> None]
    ELSE LET images == SplitImages(Val(sample))
             img_exts == ImgExts(images)
         IN IF IsNewDict(expected)
            THEN [expected |-> [kind |-> "set", v |-> img_exts], sample |-> Some(images)]
            ELSE IF SetDiffers(img_exts, expected)
            THEN [expected |-> expected, sample |-> None]
            ELSE [expected |-> expected, sample |-> Some(images)]

\* the text files a record can name, with what f.read() returns for each
TextFiles == [p \in {"t.txt", "c.txt"} |-> IF p = "t.txt" THEN "text of t" ELSE "text of c"]
ReadFile(path) == TextFiles[path]

\* str(value): a text is returned as it is, None gives the text 'None'
Str(v) == IF IsNone(v) THEN "None" ELSE Val(v)

\* mutant: the legacy key text is looked at before the answer key
AnswerTextFirst(raw) ==
    IF Has(raw.text) THEN Val(raw.text)
    ELSE IF Has(raw.answer) THEN Val(raw.answer)
    ELSE IF Has(raw.text_filepath) THEN Some(ReadFile(Val(Val(raw.text_filepath))))
    ELSE Some("na")

\* lines 353-362, with answer_key = 'answer'
Answer(raw) ==
    IF Has(raw.answer) THEN Val(raw.answer)
    ELSE IF Has(raw.text) THEN Val(raw.text)
    ELSE IF Has(raw.text_filepath) THEN Some(ReadFile(Val(Val(raw.text_filepath))))
    ELSE Some("na")

\* a line of a context file: the text it holds and whether blanks surround it
Line(pad, text) == [pad |-> pad, text |-> text]

\* the context files that can be configured: each has a line that is not
\* blank
ContextFiles ==
    { <<Line(TRUE, "p1")>>, <<Line(FALSE, "p1"), Line(TRUE, "p2")>>,
      <<Line(FALSE, ""), Line(FALSE, "p2")>> }

\* lines 263-269: the stripped lines of the file that are not empty
RECURSIVE ReadLines(_)
ReadLines(lines) ==
    IF lines = <<>> THEN <<>>
    ELSE IF Head(lines).text = "" THEN ReadLines(Tail(lines))
    ELSE <<Head(lines).text>> \o ReadLines(Tail(lines))

\* the positions np.random.choice(self.context_list) can return; 0 stands
\* for no draw
Draws(raw, pool) ==
    IF Has(raw.context) \/ Has(raw.context_filepath) \/ IsNone(pool) THEN {0}
    ELSE IF Val(pool) = <<>> THEN {0}
    ELSE 1..Len(Val(pool))

\* line 371: np.random.choice raises ValueError on an empty list
ContextError(raw, pool) ==
    IF /\ ~Has(raw.context)
       /\ ~Has(raw.context_filepath)
       /\ ~IsNone(pool)
       /\ Val(pool) = <<>>
    THEN "ValueError"
    ELSE "none"

\* mutant: the legacy key question is looked at before the pool
ContextQuestionFirst(raw, pool, c) ==
    IF Has(raw.context) THEN Val(raw.context)
    ELSE IF Has(raw.context_filepath) THEN Some(ReadFile(Val(Val(raw.context_filepath))))
    ELSE IF Has(raw.question) THEN Val(raw.question)
    ELSE IF ~IsNone(pool) THEN Some(Val(pool)[c])
    ELSE Some("what does this audio mean")

\* lines 365-383, with context_key = 'context'; c is the position drawn
Context(raw, pool, c) ==
    IF Has(raw.context) THEN Val(raw.context)
    ELSE IF Has(raw.context_filepath) THEN Some(ReadFile(Val(Val(raw.context_filepath))))
    ELSE IF ~IsNone(pool) THEN Some(Val(pool)[c])
    ELSE IF Has(raw.question) THEN Val(raw.question)
    ELSE Some("what does this audio mean")

InitParser ==
    /\ audio_extension = None
    /\ video_extension = None
    /\ image_extensions = EmptyDict
    /\ parsed = <<>>
    /\ context_list = None

\* lines 261-272 of MediaDataCollection.__init__, before any record is
\* parsed: a configured context file is read into the pool
LoadContextFile(lines) ==
    /\ parsed = <<>>
    /\ IsNone(context_list)
    /\ context_list' = Some(ReadLines(lines))
    /\ UNCHANGED <<audio_extension, video_extension, image_extensions, parsed>>
    /\ UNCHANGED <<cfgVars, buildVars, got, pipeVars, output, call>>

\* __parse_item on one record: the attributes it updates and what it returns
ParseItem(raw, c) ==
    /\ Len(parsed) < MaxItems
    /\ c \in Draws(raw, context_list)
    /\ LET audio == ExtensionGuard(audio_extension, AudioFile(raw))
           vfile == VideoFile(raw)
           video == ExtensionGuard(video_extension, vfile.file)
           image == ImageGuard(image_extensions, ImageSample(raw))
           cerr  == ContextError(raw, context_list)
       IN /\ audio_extension' = audio.expected
          /\ IF vfile.err # "none"
             THEN /\ parsed' = Append(parsed, [raw |-> raw, err |-> vfile.err,
                                               audio_file |-> None, video_file |-> None,
                                               image_sample |-> None,
                                               answer |-> "", context |-> ""])
                  /\ UNCHANGED <<video_extension, image_extensions>>
             ELSE /\ video_extension' = video.expected
                  /\ image_extensions' = image.expected
                  /\ parsed' =
                        IF cerr # "none"
                        THEN Append(parsed, [raw |-> raw, err |-> cerr,
                                             audio_file |-> None, video_file |-> None,
                                             image_sample |-> None,
                                             answer |-> "", context |-> ""])
                        ELSE Append(parsed, [raw |-> raw, err |-> "none",
                                             audio_file |-> audio.file,
                                             video_file |-> video.file,
                                             image_sample |-> image.sample,
                                             answer |-> Str(Answer(raw)),
                                             context |->
                                                 Str(Context(raw, context_list, c))])
    /\ UNCHANGED <<cfgVars, buildVars, got, pipeVars, output, call, context_list>>

\* ------------------------------------------------ dataset factory functions
\* a bucketing weight: whether it is an int, and its value
Weight(int, v) == [int |-> int, v |-> v]
Weights == {Weight(TRUE, 1), Weight(TRUE, 2), Weight(TRUE, 0), Weight(TRUE, -1),
            Weight(FALSE, 2)}

\* the options the functions read: the number of buckets in each path list,
\* the weights (None when the key is absent), whether max_utts is a key,
\* is_concat, and the key concat_sampling_technique (absent, null or set)
Configs ==
    [ manifest_filepath : 1..MaxBuckets,
      media_tar_filepaths : 1..MaxBuckets,
      bucketing_weights : {None} \cup {Some(w) : w \in SeqsUpTo(Weights, MaxBuckets)},
      max_utts : BOOLEAN,
      is_concat : BOOLEAN,
      concat_sampling_technique : {Absent, Present(None), Present(Some("random"))} ]

\* how a call ends: the exception raised ("none" when it returns), what is
\* returned, and how many times MediaCrudeWebDataset was called
Outcome(e, r, n) == [err |-> e, returned |-> r, constructed |-> n]

\* `if bucketing_weights:` is false for None and for an empty list
Truthy(weights) == ~IsNone(weights) /\ Val(weights) # <<>>

\* mutant: a weight of 0 is let through
WeightRejectedBelowZero(w) == ~w.int \/ w.v < 0

\* line 828
WeightRejected(w) == ~w.int \/ w.v <= 0

\* line 852 passes media_tar_filepath=..., the constructor (line 584) names
\* the parameter media_tar_filepaths and takes no other keywords
MediaCrudeWebDatasetCall == "TypeError"

\* lines 806-884
GetMediaCrudeWebdataset(config) ==
    LET weights == config.bucketing_weights
    IN IF Truthy(weights)
          /\ \E k \in 1..Len(Val(weights)) : WeightRejected(Val(weights)[k])
       THEN Outcome("ValueError", "nothing", 0)
       ELSE IF config.manifest_filepath # config.media_tar_filepaths
       THEN Outcome("ValueError", "nothing", 0)
       ELSE IF config.max_utts THEN Outcome("ValueError", "nothing", 0)
       ELSE IF MediaCrudeWebDatasetCall # "none"
       THEN Outcome(MediaCrudeWebDatasetCall, "nothing", 1)
       ELSE Outcome("none", "dataset", config.manifest_filepath)

\* lines 887-947: one call of get_media_crude_webdataset per pair of paths,
\* each on a copy of the config that holds that pair only
GetConcatMediaCrudeWebdataset(config) ==
    GetMediaCrudeWebdataset([config EXCEPT !.manifest_filepath = 1,
                                           !.media_tar_filepaths = 1])

\* lines 950-997
GetMediaCrudeWebdatasetFromConfig(config) ==
    IF config.is_concat /\ Has(config.concat_sampling_technique)
          /\ IsNone(Val(config.concat_sampling_technique))
    THEN Outcome("none", "None", 0)
    ELSE IF config.is_concat THEN GetConcatMediaCrudeWebdataset(config)
    ELSE GetMediaCrudeWebdataset(config)

NoCall == [fn |-> "none", config |-> <<>>, out |-> <<>>]

\* one call of a factory function on a configuration
CallGetMediaCrudeWebdataset(config) ==
    /\ call = NoCall
    /\ call' = [fn |-> "get_media_crude_webdataset", config |-> <<config>>,
                out |-> <<GetMediaCrudeWebdataset(config)>>]
    /\ UNCHANGED <<cfgVars, buildVars, got, pipeVars, output, parseVars>>

CallGetMediaCrudeWebdatasetFromConfig(config) ==
    /\ call = NoCall
    /\ call' = [fn |-> "get_media_crude_webdataset_from_config", config |-> <<config>>,
                out |-> <<GetMediaCrudeWebdatasetFromConfig(config)>>]
    /\ UNCHANGED <<cfgVars, buildVars, got, pipeVars, output, parseVars>>

\* -------------------------------------------------------------- specification
Targets == {0, 2, MaxTarget}

InitLocals ==
    /\ rows = <<>>
    /\ pc = "loop"
    /\ err = "none"
    /\ data = <<>>
    /\ mapping = EmptyMapping
    /\ duration_filtered = 0
    /\ num_filtered = 0
    /\ total_duration = 0
    /\ curr_sum_dur = None
    /\ got = NoLookup

InitPipeline ==
    /\ upstream = <<>>
    /\ exhausted = FALSE
    /\ current_key = None
    /\ current_others = None
    /\ offset_id = 0
    /\ filtered = <<>>
    /\ emitted = <<>>
    /\ resolved = <<>>
    /\ last = Ended("none", "none")
    /\ output = NoSample
    /\ InitParser
    /\ call = NoCall

\* every combination of the constructor's options
Init ==
    /\ min_duration \in {None, Some(2)}
    /\ max_duration \in {None, Some(3)}
    /\ max_number \in {None, Some(0), Some(2)}
    /\ do_sort_by_duration \in BOOLEAN
    /\ index_by_file_id \in BOOLEAN
    /\ max_num_samples \in {None} \cup {Some(t) : t \in Targets}
    /\ InitLocals
    /\ InitPipeline

Construct ==
    \/ \E row \in RowKinds : LoopBody(row)
    \/ LoopEnd
    \/ Resize
    \/ SortAndStore

Next == Construct

Spec == Init /\ [][Next]_vars

\* a collection built with the default options, then looked up by position
InitLookup ==
    /\ min_duration = None
    /\ max_duration = None
    /\ max_number = None
    /\ do_sort_by_duration = FALSE
    /\ index_by_file_id = FALSE
    /\ max_num_samples = None
    /\ InitLocals
    /\ InitPipeline

NextLookup ==
    \/ Construct
    \/ \E idx \in -1..(Len(data) + 1) : GetItem(idx)

SpecLookup == InitLookup /\ [][NextLookup]_vars

\* the collection as MediaCrudeWebDataset.__init__ builds it (lines 618-626),
\* then pulls on its pipeline
InitPipe ==
    /\ min_duration \in {None, Some(2)}
    /\ max_duration = None
    /\ max_number = None
    /\ do_sort_by_duration = FALSE
    /\ index_by_file_id = TRUE
    /\ max_num_samples = None
    /\ InitLocals
    /\ InitPipeline

NextPipe ==
    \/ Construct
    \/ \E keys \in SeqsUpTo(KeyKinds, MaxUpstream - Len(upstream)) : Pull(keys)

SpecPipe == InitPipe /\ [][NextPipe]_vars

\* _build_sample called on its own on a collection built as for the pipeline
Tuples ==
    { LoopTuple(others, key, off) :
          others \in Payloads, key \in KeyKinds, off \in 0..(MaxRows - 1) }

NextAssemble ==
    \/ Construct
    \/ \E tup \in Tuples : Assemble(tup)

SpecAssemble == InitPipe /\ [][NextAssemble]_vars

\* the parser run over the records of a manifest, one after the other
NextParse ==
    \/ \E lines \in ContextFiles : LoadContextFile(lines)
    \/ \E raw \in RawKinds, c \in 0..MaxLines : ParseItem(raw, c)

SpecParse == InitLookup /\ [][NextParse]_vars

\* the factory functions called on a configuration
NextConfig ==
    \/ \E config \in Configs : CallGetMediaCrudeWebdataset(config)
    \/ \E config \in Configs : CallGetMediaCrudeWebdatasetFromConfig(config)

SpecConfig == InitLookup /\ [][NextConfig]_vars

\* ---------------------------------------------------------------- properties
\* whether a row passes the filters of the construction pass
RowPasses(row) ==
    /\ row.answer # NoAnswer
    /\ \A k \in 1..Len(row.duration.v) :
          /\ IsNone(min_duration) \/ row.duration.v[k] >= Val(min_duration)
          /\ IsNone(max_duration) \/ row.duration.v[k] <= Val(max_duration)

\* the entries of the passing rows among the first n rows read, in manifest order
RECURSIVE AcceptedEntities(_)
AcceptedEntities(n) ==
    IF n = 0 THEN <<>>
    ELSE IF RowPasses(rows[n])
    THEN Append(AcceptedEntities(n - 1), MediaDataEntity(n - 1, rows[n]))
    ELSE AcceptedEntities(n - 1)

Accepted == AcceptedEntities(Len(rows))

Occurrences(e, d) == Cardinality({k \in 1..Len(d) : d[k] = e})

Built == pc = "done"

PipelineRuns == pc = "done" /\ index_by_file_id

\* C1: the replicator emits, for each record it took from the filter, one
\* tuple per segment of the record's file id, with offset indices 0, 1, ...
\* in order and the record's own payload and key; the tuples of one record
\* are consecutive, and the record held last has been emitted up to the
\* current offset index.
RECURSIVE Replicas(_, _, _)
Replicas(rec, from, to) ==
    IF from > to THEN <<>>
    ELSE <<LoopTuple(rec.others, rec.key, from)>> \o Replicas(rec, from + 1, to)

SegmentCount(rec) == Len(mapping[KeyFileId(rec.key).fid])

RECURSIVE ExpectedEmitted(_)
ExpectedEmitted(n) ==
    IF n = 0 THEN <<>>
    ELSE ExpectedEmitted(n - 1)
         \o Replicas(filtered[n], 0,
                     IF n = Len(filtered) THEN offset_id ELSE SegmentCount(filtered[n]) - 1)

ReplicatorEmitsEachSegmentOnce ==
    PipelineRuns =>
        /\ emitted = ExpectedEmitted(Len(filtered))
        /\ filtered # <<>> => offset_id < SegmentCount(filtered[Len(filtered)])

\* a record with three segments was emitted three times, then the next record
ThreeSegmentsThenNextRecord ==
    /\ PipelineRuns
    /\ Len(filtered) = 2
    /\ SegmentCount(filtered[1]) = 3
    /\ Len(emitted) = 4
    /\ emitted[3].others = filtered[1].others /\ emitted[3].offset_id = 2
    /\ emitted[4].others = filtered[2].others /\ emitted[4].offset_id = 0

\* C2: the records the filter has yielded are exactly the upstream records
\* read so far whose file id (the basename of the key up to its extension) is
\* a key of the mapping, in upstream order, unchanged and once each.
KeyStem(key) == <<Basename(key)[1]>>

RECURSIVE MappedSubsequence(_)
MappedSubsequence(n) ==
    IF n = 0 THEN <<>>
    ELSE IF KeyStem(upstream[n].key) \in DOMAIN mapping
    THEN Append(MappedSubsequence(n - 1), upstream[n])
    ELSE MappedSubsequence(n - 1)

FilterYieldsMappedSubsequence ==
    PipelineRuns => filtered = MappedSubsequence(Len(upstream))

\* C3: a pull never ends in an error of the replicator or of the assembler's
\* entry lookup, and every tuple handed to the assembler has a file id in the
\* mapping, an offset index inside that file id's list and a position inside
\* the collection.
LookupInvariantHolds ==
    PipelineRuns =>
        /\ last.kind \in PipeErrors => last.stage = "filter"
        /\ Len(resolved) = Len(emitted)
        /\ \A n \in 1..Len(emitted) :
              LET f == KeyFileId(emitted[n].key)
              IN /\ f.err = "none"
                 /\ f.fid \in DOMAIN mapping
                 /\ emitted[n].offset_id \in 0..(Len(mapping[f.fid]) - 1)
                 /\ mapping[f.fid][emitted[n].offset_id + 1] \in 0..(Len(data) - 1)
                 /\ resolved[n].idx = mapping[f.fid][emitted[n].offset_id + 1]

\* the assembler resolved the second segment of a file id to an entry whose
\* position differs from its row number, after the filter dropped a record
SecondSegmentResolved ==
    /\ PipelineRuns
    /\ Len(upstream) > Len(filtered)
    /\ \E n \in 1..Len(resolved) :
          /\ emitted[n].offset_id = 1
          /\ resolved[n].entry.id # resolved[n].idx

\* C4: with both bounds configured, every entry of the built collection that
\* has a duration has all its duration values within [min_duration,
\* max_duration].
DurationsWithinBounds ==
    (Built /\ ~IsNone(min_duration) /\ ~IsNone(max_duration)) =>
        \A k \in 1..Len(data) : \A j \in 1..Len(data[k].duration.v) :
            /\ Val(min_duration) <= data[k].duration.v[j]
            /\ data[k].duration.v[j] <= Val(max_duration)

\* both bounds rejected a row each and a list-valued duration was accepted
BothBoundsFiltered ==
    /\ Built /\ ~IsNone(min_duration) /\ ~IsNone(max_duration)
    /\ \E k \in 1..Len(data) : data[k].duration.kind = "list"
    /\ \E n \in 1..Len(rows) : rows[n].duration = Scalar(1)
    /\ \E n \in 1..Len(rows) : rows[n].duration = Scalar(4)

\* C5: in index mode every position held under a key of the mapping is a
\* position of the collection, and the entry there has that key as its file
\* id (from its audio file, else its video file, else its first image).
MappingPointsToItsFileId ==
    (Built /\ index_by_file_id) =>
        \A k \in DOMAIN mapping : \A j \in 1..Len(mapping[k]) :
            /\ mapping[k][j] \in 0..(Len(data) - 1)
            /\ IndexFileId(data[mapping[k][j] + 1]).fid = k

\* two file ids are indexed, one of them behind a rejected row
IndexedBehindRejectedRow ==
    /\ Built /\ index_by_file_id
    /\ Cardinality(DOMAIN mapping) >= 2
    /\ Len(data) < Len(rows)
    /\ \E k \in DOMAIN mapping : data[mapping[k][1] + 1].id # mapping[k][1]

\* C6: in index mode every list of the mapping is non-empty and strictly
\* increasing and holds the positions of all entries with that file id.
MappingListsComplete ==
    (Built /\ index_by_file_id) =>
        /\ \A k \in DOMAIN mapping :
              /\ mapping[k] # <<>>
              /\ \A i, j \in 1..Len(mapping[k]) : i < j => mapping[k][i] < mapping[k][j]
              /\ {mapping[k][j] : j \in 1..Len(mapping[k])}
                    = {p \in 0..(Len(data) - 1) : IndexFileId(data[p + 1]).fid = k}
        /\ \A p \in 1..Len(data) : IndexFileId(data[p]).fid \in DOMAIN mapping

\* one file id holds two segments and another file id is indexed too
TwoSegmentsIndexed ==
    /\ Built /\ index_by_file_id
    /\ \E k \in DOMAIN mapping : Len(mapping[k]) = 2
    /\ Cardinality(DOMAIN mapping) = 2

\* C7: a lookup outside [0, len) is refused by the bounds check (ValueError),
\* a lookup inside returns the entry at that position.
LookupIsBoundsChecked ==
    got.kind # "none" =>
        IF got.idx < 0 \/ got.idx >= Len(data)
        THEN got.kind = "ValueError"
        ELSE got.kind = "return" /\ got.entry = <<data[got.idx + 1]>>

\* C8 as stated: with max_num_samples set and indexing off, construction
\* never fails in the resize and ends with exactly max_num_samples entries,
\* whatever the number of accepted rows; otherwise the length is the number
\* of accepted rows.
ResizeLengthForEveryCount ==
    /\ ResizeActive => err # "ZeroDivisionError"
    /\ (Built /\ ResizeActive) => Len(data) = Val(max_num_samples)
    /\ (Built /\ ~ResizeActive) => Len(data) = Len(Accepted)

\* C8 amended: a completed construction with max_num_samples set and
\* indexing off has exactly max_num_samples entries, and otherwise as many
\* as rows were accepted; the resize fails (division by zero) exactly when
\* no row was accepted and max_num_samples is positive.
ResizeLengthWhenRowsAccepted ==
    /\ (Built /\ ResizeActive) => Len(data) = Val(max_num_samples)
    /\ (Built /\ ~ResizeActive) => Len(data) = Len(Accepted)
    /\ (pc \in {"sort", "done"} /\ ResizeActive) =>
          (Len(Accepted) > 0 \/ Val(max_num_samples) = 0)
    /\ err = "ZeroDivisionError" =>
          (ResizeActive /\ Len(Accepted) = 0 /\ Val(max_num_samples) > 0)

\* three accepted rows were oversampled to eight entries
OversampledToTarget ==
    /\ Built /\ ResizeActive
    /\ Len(Accepted) = 3
    /\ Len(data) = MaxTarget

\* C9: after oversampling, every accepted entry occurs at least
\* floor(max_num_samples / n) times and at most once more (the residual
\* holds no entry twice).
ResidualWithoutDuplicates ==
    (Built /\ ResizeActive /\ Len(Accepted) > 0 /\ Val(max_num_samples) > Len(Accepted)) =>
        \A k \in 1..Len(Accepted) :
            LET q == Val(max_num_samples) \div Len(Accepted)
                c == Occurrences(Accepted[k], data)
            IN q <= c /\ c <= q + 1

\* C10: in index mode the steps after the pass change neither the entries
\* nor the mapping, and the collection is the accepted rows in manifest order.
IndexModeKeepsPositions ==
    [][(index_by_file_id /\ pc \in {"resize", "sort"}) =>
          /\ data' = data
          /\ mapping' = mapping
          /\ pc' = "done" => data' = Accepted]_vars

\* index mode with a resize and a sort requested that would both have acted
IndexModeIgnoredResizeAndSort ==
    /\ Built /\ index_by_file_id
    /\ do_sort_by_duration /\ max_num_samples = Some(2)
    /\ Len(data) = 3
    /\ data[1].duration = Scalar(2) /\ data[2].duration = Scalar(1)

\* C11: max_number is a hard cap. Whenever it is configured (0 included), the
\* construction pass never holds more than max_number accepted rows, and once
\* at least max_number rows have passed the filters the accepted rows are
\* exactly the first max_number passing rows in manifest order.
MaxNumberIsHardCap ==
    (pc \in {"loop", "resize"} /\ ~IsNone(max_number)) =>
        /\ Len(data) <= Val(max_number)
        /\ Len(Accepted) >= Val(max_number) =>
               data = SubSeq(Accepted, 1, Val(max_number))

\* C12: repeated pulls on the replicator end in exhaustion. Every pull ends
\* by yielding a tuple or by signalling exhaustion, never otherwise;
\* exhaustion is signalled only after every segment of the last record taken
\* from upstream has been emitted, and the tuples emitted before it number
\* the sum of the segment-list lengths of the records' file ids.
RECURSIVE SegmentTotal(_)
SegmentTotal(n) ==
    IF n = 0 THEN 0
    ELSE SegmentTotal(n - 1) + Len(mapping[KeyStem(filtered[n].key)])

ReplicatorExhaustsAfterLastSegment ==
    PipelineRuns =>
        /\ last.kind \in {"none", "sample", "StopIteration"}
        /\ last.kind = "StopIteration" =>
              /\ Len(emitted) = SegmentTotal(Len(filtered))
              /\ filtered # <<>> =>
                    /\ emitted[Len(emitted)].others = filtered[Len(filtered)].others
                    /\ emitted[Len(emitted)].offset_id + 1 =
                          Len(mapping[KeyStem(filtered[Len(filtered)].key)])

\* C13: every pull on the filter ends by returning a record or by
\* signalling exhaustion, and exhaustion is signalled only when no upstream
\* record with a mapped file id is left unreturned, a trailing run of
\* unmapped records included.
FilterPullReturnsOrExhausts ==
    PipelineRuns =>
        /\ last.stage = "filter" => last.kind = "StopIteration"
        /\ exhausted => Len(filtered) = Len(MappedSubsequence(Len(upstream)))

\* C14: every tuple the assembler resolves to a manifest entry, an audio
\* only tuple included, is assembled without error, and the metadata of the
\* output carries the entry's duration and the entry's offset, 0 when the
\* entry has none.
Resolved == ~IsNone(output) /\ ~IsNone(Val(output).entry)

MetadataRoundTrip ==
    Resolved =>
        LET entry == Val(Val(output).entry)
            out == Val(output).out
        IN /\ out.err = "none"
           /\ ~IsNone(out.metadata)
           /\ Val(out.metadata).duration = entry.duration
           /\ Val(out.metadata).offset =
                 (IF IsNone(entry.offset) THEN 0 ELSE Val(entry.offset))

\* C18: the assembled sample carries an attention_mask exactly when the
\* tuple has an image payload or a video payload that is not None; an audio
\* only tuple is assembled into a sample without attention_mask.
HasVisualPayload(tup) ==
    \/ ~IsNone(tup.others[2])
    \/ \E k \in 3..Len(tup.others) : ~IsNone(tup.others[k])

AttentionMaskOnlyWithVisual ==
    Resolved =>
        /\ Val(output).out.err = "none"
        /\ Val(output).out.attention_mask = HasVisualPayload(Val(output).tup)

\* C15: over the records parsed so far, the expected audio extension is
\* the extension of the first record whose audio file is not null (and None
\* before any) and never changes; every record is returned without raising,
\* with its audio file when the file's extension is the expected one and
\* with audio_file null when it differs.
WithAudio == {n \in 1..Len(parsed) : ~IsNone(AudioFile(parsed[n].raw))}

FirstOf(S) == CHOOSE n \in S : \A m \in S : n <= m

AudioExtensionOf(n) == Extension(Val(AudioFile(parsed[n].raw)))

AudioExtensionGuardHolds ==
    /\ WithAudio = {} => audio_extension = None
    /\ WithAudio # {} => audio_extension = Some(AudioExtensionOf(FirstOf(WithAudio)))
    /\ \A n \in 1..Len(parsed) :
          /\ parsed[n].err = "none"
          /\ parsed[n].audio_file =
                (IF n \in WithAudio
                    /\ AudioExtensionOf(n) = AudioExtensionOf(FirstOf(WithAudio))
                 THEN AudioFile(parsed[n].raw)
                 ELSE None)

\* after a wav record, a flac record lost its audio file and a later wav
\* record kept its own
AudioMismatchNulledThenKept ==
    /\ Len(parsed) = 3
    /\ audio_extension = Some("wav")
    /\ ~IsNone(parsed[1].audio_file)
    /\ ~IsNone(AudioFile(parsed[2].raw)) /\ IsNone(parsed[2].audio_file)
    /\ parsed[3].audio_file = AudioFile(parsed[3].raw)
    /\ ~IsNone(parsed[3].audio_file)
    /\ parsed[3].raw # parsed[1].raw

\* C16: every record is parsed without raising and its video file is taken
\* from video_filename, else video_filepath, else video_file, else null, so
\* a record that carries only video_file keeps that value; the first video
\* extension seen becomes the expected one and a record whose video file has
\* another extension is returned with video_file null.
VideoFileByPrecedence(raw) ==
    IF Has(raw.video_filename) THEN Val(raw.video_filename)
    ELSE IF Has(raw.video_filepath) THEN Val(raw.video_filepath)
    ELSE IF Has(raw.video_file) THEN Val(raw.video_file)
    ELSE None

WithVideo == {n \in 1..Len(parsed) : ~IsNone(VideoFileByPrecedence(parsed[n].raw))}

VideoExtensionOf(n) == Extension(Val(VideoFileByPrecedence(parsed[n].raw)))

VideoFileResolvedByPrecedence ==
    /\ WithVideo # {} => video_extension = Some(VideoExtensionOf(FirstOf(WithVideo)))
    /\ \A n \in 1..Len(parsed) :
          /\ parsed[n].err = "none"
          /\ parsed[n].video_file =
                (IF n \in WithVideo
                    /\ VideoExtensionOf(n) = VideoExtensionOf(FirstOf(WithVideo))
                 THEN VideoFileByPrecedence(parsed[n].raw)
                 ELSE None)

\* C17: the first record with an image sample establishes the expected set
\* of image suffixes and keeps its image sample, the list of its names in
\* order with the spaces removed; a later record keeps its image sample when
\* its suffix set equals the expected one and loses it only when the sets
\* differ.
WithImages == {n \in 1..Len(parsed) : ~IsNone(ImageSample(parsed[n].raw))}

ImagesOf(n) == SplitImages(Val(ImageSample(parsed[n].raw)))

ImageSuffixSetGuardHolds ==
    /\ WithImages # {} => image_extensions.v = ImgExts(ImagesOf(FirstOf(WithImages)))
    /\ \A n \in 1..Len(parsed) :
          parsed[n].image_sample =
             (IF n \in WithImages
                 /\ ImgExts(ImagesOf(n)) = ImgExts(ImagesOf(FirstOf(WithImages)))
              THEN Some(ImagesOf(n))
              ELSE None)

\* C19: get_media_crude_webdataset raises before it constructs any dataset
\* whenever the two path lists differ in their number of buckets, whenever a
\* bucketing weight is not a positive integer, and whenever the option
\* max_utts is present.
HasBadWeight(config) ==
    /\ ~IsNone(config.bucketing_weights)
    /\ \E k \in 1..Len(Val(config.bucketing_weights)) :
          LET w == Val(config.bucketing_weights)[k] IN ~(w.int /\ w.v > 0)

ConfigErrorsRaiseBeforeConstruction ==
    call.fn = "get_media_crude_webdataset" =>
        LET config == call.config[1]
            out == call.out[1]
        IN (\/ config.manifest_filepath # config.media_tar_filepaths
            \/ HasBadWeight(config)
            \/ config.max_utts)
           => (out.err = "ValueError" /\ out.constructed = 0)

\* a weight of 0 was the only fault of the configuration, and the call raised
\* with no dataset constructed
ZeroWeightRaised ==
    /\ call.fn = "get_media_crude_webdataset"
    /\ call.config[1].manifest_filepath = call.config[1].media_tar_filepaths
    /\ ~call.config[1].max_utts
    /\ call.config[1].bucketing_weights = Some(<<Weight(TRUE, 1), Weight(TRUE, 0)>>)
    /\ call.out[1] = Outcome("ValueError", "nothing", 0)

\* C20: with is_concat set and no concat sampling technique provided, the
\* option being absent or null, get_media_crude_webdataset_from_config
\* returns None without raising and without constructing any dataset.
DegradesToNullWithoutTechnique ==
    (/\ call.fn = "get_media_crude_webdataset_from_config"
     /\ call.config[1].is_concat
     /\ \/ ~Has(call.config[1].concat_sampling_technique)
        \/ IsNone(Val(call.config[1].concat_sampling_technique)))
    => call.out[1] = Outcome("none", "None", 0)

\* C21: once the collection is built, no pull on the filter, the replicator
\* or the assembler, with the positional lookups and length queries they
\* make, changes the entry sequence, a field of an entry or the mapping.
CollectionIsReadOnly ==
    [][Built => (data' = data /\ mapping' = mapping)]_vars

\* the filter dropped a record, the replicator emitted a second segment, the
\* assembler looked both segments up and the upstream was exhausted
PulledToExhaustion ==
    /\ PipelineRuns
    /\ exhausted
    /\ Len(upstream) > Len(filtered)
    /\ Len(resolved) >= 2
    /\ emitted[2].offset_id = 1
    /\ data # <<>>

\* C22: in index mode a row that passes the filters and carries no audio
\* file, no video file and no image sample (or an empty one) is appended to
\* the collection without error and adds no position to the mapping; only
\* entries that carry one of the three are listed in the mapping.
HasMedia(e) ==
    \/ ~IsNone(e.audio_file)
    \/ ~IsNone(e.video_file)
    \/ (~IsNone(e.image_files) /\ Val(e.image_files) # <<>>)

IndexStepSkipsRowsWithoutMedia ==
    index_by_file_id =>
        /\ err \notin {"TypeError", "IndexError"}
        /\ pc \in {"loop", "resize"} => data = Accepted
        /\ \A fid \in DOMAIN mapping : \A j \in 1..Len(mapping[fid]) :
              HasMedia(data[mapping[fid][j] + 1])

\* C23: the construction pass rejects every row whose answer is null
\* without error, with or without a duration, counting it once in
\* num_filtered, and accepts every row with the answer "na" that passes the
\* duration filter; the accepted rows stand in the collection in manifest
\* order.
NullAnswerRowsRejected ==
    /\ err # "UnboundLocalError"
    /\ pc \in {"loop", "resize"} =>
          /\ data = Accepted
          /\ num_filtered = Len(rows) - Len(Accepted)

\* C24: when do_sort_by_duration is set and indexing is not active, the sort
\* step ends with the collection stably sorted by duration: the durations
\* are non-decreasing along it, entries of equal duration keep their order
\* and the entries are the same with the same multiplicities.
WithDuration(d, dur) == SelectSeq(d, LAMBDA e : e.duration = dur)

IsStableSortOf(new, old) ==
    /\ Len(new) = Len(old)
    /\ \A k \in 1..(Len(new) - 1) : ~LexLess(new[k + 1].duration.v, new[k].duration.v)
    /\ \A k \in 1..Len(old) :
          WithDuration(new, old[k].duration) = WithDuration(old, old[k].duration)

SortStepSortsStably ==
    [][(pc = "sort" /\ SortActive) => (pc' = "done" /\ IsStableSortOf(data', data))]_vars

\* ---------------------------------------------------------------------
\* C25: the answer of a parsed record is the text of the value under the
\* answer key if the record has that key; else of the value under "text"
\* if it has that key; else what the file named by "text_filepath" holds
\* if it has that key; else "na".  A later source is used only when every
\* earlier key is absent from the record.
AnswerResolvedByPrecedence ==
    \A n \in 1..Len(parsed) :
        LET r == parsed[n].raw
            a == parsed[n].answer
        IN parsed[n].err = "none" =>
            /\ Has(r.answer) => a = Str(Val(r.answer))
            /\ (~Has(r.answer) /\ Has(r.text)) => a = Str(Val(r.text))
            /\ (~Has(r.answer) /\ ~Has(r.text) /\ Has(r.text_filepath)) =>
                   a = ReadFile(Val(Val(r.text_filepath)))
            /\ (~Has(r.answer) /\ ~Has(r.text) /\ ~Has(r.text_filepath)) => a = "na"

\* each of the four sources has given the answer of a parsed record
AllAnswerSourcesUsed ==
    /\ \E n \in 1..Len(parsed) :
          /\ parsed[n].err = "none"
          /\ Has(parsed[n].raw.answer) /\ Has(parsed[n].raw.text)
          /\ parsed[n].answer = "x"
    /\ \E n \in 1..Len(parsed) :
          /\ ~Has(parsed[n].raw.answer) /\ Has(parsed[n].raw.text)
          /\ Has(parsed[n].raw.text_filepath) /\ parsed[n].answer = "t"
    /\ \E n \in 1..Len(parsed) :
          /\ ~Has(parsed[n].raw.answer) /\ ~Has(parsed[n].raw.text)
          /\ Has(parsed[n].raw.text_filepath) /\ parsed[n].answer = "text of t"

\* ---------------------------------------------------------------------
\* C26: the context of a parsed record is the text of the value under the
\* context key if the record has it; else what the file named by
\* "context_filepath" holds; else, whenever a pool is configured, a member
\* of the pool; else the value under "question"; else the fixed fallback.
\* Under a configured pool a "question" key is never used.
PoolMembers ==
    IF IsNone(context_list) THEN {}
    ELSE { Val(context_list)[i] : i \in 1..Len(Val(context_list)) }

MediaFile(e) == IF ~IsNone(e.audio_file) THEN e.audio_file ELSE e.video_file

FileIdsAgree ==
    \A i \in 1..Len(data), k \in 1..Len(upstream) :
        ( /\ ~IsNone(MediaFile(data[i]))
          /\ Basename(Val(MediaFile(data[i]))) = Basename(upstream[k].key) )
        => /\ KeyFileId(upstream[k].key).err = "none"
           /\ KeyFileId(upstream[k].key).fid = IndexFileId(data[i]).fid

\* ---------------------------------------------------------------------
\* C28: when the pipeline has run to its end over an upstream that holds
\* exactly one record for each file id of the mapping, a record's file id
\* being the one the collection gives its file name, the positions resolved
\* are, record by record in upstream order, the positions the mapping
\* stores for the record's file id: each position once, those of one file
\* id consecutively and in increasing order, and as many samples as the
\* mapping has positions.
RecordFileId(rec) == SplitextRoot(Basename(rec.key))

OneRecordPerKey ==
    \A fid \in DOMAIN mapping :
        Cardinality({k \in 1..Len(upstream) : RecordFileId(upstream[k]) = fid}) = 1

RECURSIVE Joined(_)
Joined(recs) ==
    IF recs = <<>> THEN <<>>
    ELSE (IF RecordFileId(Head(recs)) \in DOMAIN mapping
          THEN mapping[RecordFileId(Head(recs))]
          ELSE <<>>) \o Joined(Tail(recs))

RunEnded == last.kind = "StopIteration" \/ last.kind \in PipeErrors

JoinIsComplete ==
    (pc = "done" /\ RunEnded /\ OneRecordPerKey)
    => [k \in 1..Len(resolved) |-> resolved[k].idx] = Joined(upstream)

\* ---------------------------------------------------------------------
\* C29: when the loop over the rows has ended and no max_number is set,
\* every row read is either in data or counted once in num_filtered,
\* total_duration is the sum of the durations of the rows in data and
\* duration_filtered the sum of the durations of the other rows, a row
\* without duration counting 0.
SumDur(row) == IF row.duration.kind = "none" THEN 0 ELSE SeqSum(row.duration.v)

InData == { data[i].id + 1 : i \in 1..Len(data) }

DurationOver(keep) ==
    SeqSum([n \in 1..Len(rows) |-> IF n \in keep THEN SumDur(rows[n]) ELSE 0])

DurationAccountingPartitions ==
    (pc = "resize" /\ IsNone(max_number)) =>
        /\ Cardinality(InData) = Len(data)
        /\ num_filtered = Len(rows) - Len(data)
        /\ total_duration = DurationOver(InData)
        /\ duration_filtered = DurationOver((1..Len(rows)) \ InData)

\* ---------------------------------------------------------------------
\* C30: a pull on the replicator that signals exhaustion leaves the held
\* record, the held key and the offset index as they were and emits
\* nothing, and after such a pull every later pull signals exhaustion again
\* and emits nothing.
ExhaustionIsSticky ==
    [][ /\ last'.kind = "StopIteration" =>
              /\ current_key' = current_key
              /\ current_others' = current_others
              /\ offset_id' = offset_id
              /\ emitted' = emitted
        /\ last.kind = "StopIteration" => last'.kind = "StopIteration" ]_vars

\* exhaustion was signalled while the replicator held a record whose second
\* segment it had emitted
ExhaustedHoldingReplicatedRecord ==
    /\ last.kind = "StopIteration"
    /\ ~IsNone(current_key)
    /\ offset_id = 1
    /\ Len(emitted) >= 2

\* ---------------------------------------------------------------------
\* C31: after construction in index mode no position occurs under two file
\* ids of the mapping or twice in one list, and every position of the
\* collection whose entry carries an audio file, a video file or an image
\* sample occurs in exactly one place of exactly one list.
Places(p) ==
    UNION { { <<k, j>> : j \in {i \in 1..Len(mapping[k]) : mapping[k][i] = p} } :
              k \in DOMAIN mapping }

MappingPartitionsPositions ==
    (Built /\ index_by_file_id) =>
        /\ \A k1, k2 \in DOMAIN mapping :
              \A i \in 1..Len(mapping[k1]), j \in 1..Len(mapping[k2]) :
                  (k1 # k2 \/ i # j) => mapping[k1][i] # mapping[k2][j]
        /\ \A p \in 0..(Len(data) - 1) :
              HasMedia(data[p + 1]) => Cardinality(Places(p)) = 1

\* three entries with media are indexed under two file ids, one of which
\* holds two positions
ThreePositionsUnderTwoFileIds ==
    /\ Built /\ index_by_file_id
    /\ Len(data) = 3
    /\ \A p \in 1..3 : HasMedia(data[p])
    /\ Cardinality(DOMAIN mapping) = 2
    /\ \E k \in DOMAIN mapping : Len(mapping[k]) = 2

====
